---- MODULE Spec2Model ----
(***************************************************************************)
(* Model of the AI subtitle generator: the response cleaning done by       *)
(* generateSrtFromAudio (services/geminiService.ts) on character           *)
(* sequences, and the App component's state machine (App.tsx).             *)
(***************************************************************************)
EXTENDS Integers, Sequences, FiniteSets, TLC

(***************************************************************************)
(* Characters.  A string is a sequence of one-character strings.           *)
(***************************************************************************)
Digits == {"0","1","2","3","4","5","6","7","8","9"}

Whitespace == {" ", "\n", "\r", "\t"}

IsDigit(c) == c \in Digits

IsSpace(c) == c \in Whitespace

AllSpace(s, a, b) == \A k \in a..b : IsSpace(s[k])

AllDigit(s, a, b) == \A k \in a..b : IsDigit(s[k])

\* String.prototype.trim
Trim(s) ==
  IF AllSpace(s, 1, Len(s)) THEN <<>>
  ELSE LET a == CHOOSE i \in 1..Len(s) : ~IsSpace(s[i]) /\ AllSpace(s, 1, i - 1)
           b == CHOOSE i \in 1..Len(s) : ~IsSpace(s[i]) /\ AllSpace(s, i + 1, Len(s))
       IN  SubSeq(s, a, b)

\* String.prototype.substring(index) with 1-based positions
Substring(s, index) == SubSeq(s, index, Len(s))

\* s has the literal lit at position i
StartsWithAt(s, i, lit) ==
  /\ i >= 1
  /\ i + Len(lit) - 1 <= Len(s)
  /\ \A k \in 1..Len(lit) : s[i + k - 1] = lit[k]

\* String.prototype.includes
Includes(s, lit) == \E i \in 1..(Len(s) - Len(lit) + 1) : StartsWithAt(s, i, lit)

Min(S) == CHOOSE x \in S : \A y \in S : x <= y

Max(S) == CHOOSE x \in S : \A y \in S : x >= y

(***************************************************************************)
(* The two regular expressions of generateSrtFromAudio.                    *)
(***************************************************************************)
\* the backtick character (written by name)
Backtick == "backtick"

Fence == <<Backtick, Backtick, Backtick>>

SrtTag == <<"s","r","t">>

\* \d{2}:\d{2}:\d{2}[,.]\d{3} with "d" for \d and "s" for [,.]
TimeStampPattern == <<"d","d",":","d","d",":","d","d","s","d","d","d">>

ArrowPattern == <<" ","-","-",">"," ">>

TimingPattern == TimeStampPattern \o ArrowPattern \o TimeStampPattern

ClassMatch(p, c) ==
  CASE p = "d" -> IsDigit(c)
    [] p = "s" -> c \in {",", "."}
    [] OTHER   -> c = p

MatchTimingAt(s, t) ==
  /\ t >= 1
  /\ t + Len(TimingPattern) - 1 <= Len(s)
  /\ \A k \in 1..Len(TimingPattern) : ClassMatch(TimingPattern[k], s[t + k - 1])

\* positions where /\d+\s*\n<timing>/ matches: digits i..a, whitespace
\* a+1..t-2, a line feed at t-1 and the timing line at t
SrtBlockStarts(s) ==
  { i \in 1..Len(s) :
      /\ IsDigit(s[i])
      /\ \E t \in (i + 2)..Len(s) :
           /\ s[t - 1] = "\n"
           /\ MatchTimingAt(s, t)
           /\ \E a \in i..(t - 2) : AllDigit(s, i, a) /\ AllSpace(s, a + 1, t - 2) }

\* variant: the index of the last match instead of the first
SrtBlockIndexLast(s) ==
  IF SrtBlockStarts(s) = {} THEN 0 ELSE Max(SrtBlockStarts(s))

\* srtBlockMatch.index (1-based); 0 when the match is null
SrtBlockIndex(s) ==
  IF SrtBlockStarts(s) = {} THEN 0 ELSE Min(SrtBlockStarts(s))

\* the markdown pattern (fence, optional srt, \s*, \n, lazy group, \n, fence)
\* tried at position i with the tag ending
\* before p: the greedy \s* gives back characters until a line feed j is
\* followed by a non-empty lazy group closed by the first line feed and fence at e
NoMatch == [found |-> FALSE, group |-> <<>>]

ClosersAfter(s, j) ==
  { e \in (j + 2)..Len(s) : s[e] = "\n" /\ StartsWithAt(s, e + 1, Fence) }

MarkdownTail(s, p) ==
  LET feeds == { j \in p..Len(s) :
                   s[j] = "\n" /\ AllSpace(s, p, j - 1) /\ ClosersAfter(s, j) # {} }
  IN  IF feeds = {} THEN NoMatch
      ELSE LET j == Max(feeds)
               e == Min(ClosersAfter(s, j))
           IN  [found |-> TRUE, group |-> SubSeq(s, j + 1, e - 1)]

MarkdownAt(s, i) ==
  IF ~StartsWithAt(s, i, Fence) THEN NoMatch
  ELSE IF StartsWithAt(s, i + 3, SrtTag) /\ MarkdownTail(s, i + 6).found
       THEN MarkdownTail(s, i + 6)
       ELSE MarkdownTail(s, i + 3)

\* srtContent.match(markdown): the leftmost position that matches
MarkdownMatch(s) ==
  LET starts == { i \in 1..Len(s) : MarkdownAt(s, i).found }
  IN  IF starts = {} THEN NoMatch ELSE MarkdownAt(s, Min(starts))

(***************************************************************************)
(* Errors.  A thrown value is an Error with a message or some other value. *)
(* kind is the failure kind of the taxonomy at the place the failure was   *)
(* detected; the program itself carries only the message.                  *)
(***************************************************************************)
MsgSafety ==
  <<"T","h","e"," ","r","e","q","u","e","s","t"," ","w","a","s"," ","b","l","o","c","k","e",
    "d"," ","d","u","e"," ","t","o"," ","s","a","f","e","t","y"," ","c","o","n","c","e","r",
    "n","s","."," ","T","h","e"," ","a","u","d","i","o"," ","m","a","y"," ","c","o","n","t",
    "a","i","n"," ","s","e","n","s","i","t","i","v","e"," ","c","o","n","t","e","n","t",".">>

MsgNoValidSrt ==
  <<"T","h","e"," ","m","o","d","e","l"," ","d","i","d"," ","n","o","t"," ","r","e","t","u",
    "r","n"," ","a"," ","v","a","l","i","d"," ","S","R","T"," ","f","o","r","m","a","t",".",
    " ","I","t"," ","m","i","g","h","t"," ","h","a","v","e"," ","r","e","f","u","s","e","d",
    " ","t","h","e"," ","r","e","q","u","e","s","t"," ","o","r"," ","f","a","i","l","e","d",
    " ","t","o"," ","p","r","o","c","e","s","s"," ","t","h","e"," ","a","u","d","i","o",".">>

GeminiPrefix ==
  <<"G","e","m","i","n","i"," ","A","P","I"," ","E","r","r","o","r",":"," ">>

MsgUnknown ==
  <<"A","n"," ","u","n","k","n","o","w","n"," ","e","r","r","o","r"," ","o","c","c","u","r",
    "r","e","d"," ","w","h","i","l","e"," ","c","o","m","m","u","n","i","c","a","t","i","n",
    "g"," ","w","i","t","h"," ","t","h","e"," ","A","I"," ","m","o","d","e","l",".">>

MsgTrimOfUndefined ==
  <<"C","a","n","n","o","t"," ","r","e","a","d"," ","p","r","o","p","e","r","t","i","e","s",
    " ","o","f"," ","u","n","d","e","f","i","n","e","d"," ","(","r","e","a","d","i","n","g",
    " ","'","t","r","i","m","'",")">>

NewError(msg, kind) == [isError |-> TRUE, message |-> msg, kind |-> kind]

NonError(kind) == [isError |-> FALSE, message |-> <<>>, kind |-> kind]

NoError == [isError |-> FALSE, message |-> <<>>, kind |-> "none"]

(***************************************************************************)
(* generateSrtFromAudio, step by step.                                     *)
(***************************************************************************)
\* the instruction chosen by targetLanguage and the request that carries it
Instruction(targetLanguage) ==
  IF targetLanguage = "english" THEN "transcribe-and-translate" ELSE "transcribe"

BuildRequest(base64Audio, mimeType, targetLanguage) ==
  [instruction |-> Instruction(targetLanguage), data |-> base64Audio, mimeType |-> mimeType]

\* response.text.trim(): a response without text makes trim throw
TextThrows(response) == ~response.hasText

\* variant: the text taken without trim()
UntrimmedText(response) == response.text

TrimmedText(response) == Trim(response.text)

\* variant: the interior taken without trim()
MarkdownUnwrapNoTrim(srtContent) ==
  LET markdownMatch == MarkdownMatch(srtContent)
  IN  IF markdownMatch.found /\ markdownMatch.group # <<>>
      THEN markdownMatch.group
      ELSE srtContent

\* step 1: the interior of a markdown block, if one exists
MarkdownUnwrap(srtContent) ==
  LET markdownMatch == MarkdownMatch(srtContent)
  IN  IF markdownMatch.found /\ markdownMatch.group # <<>>
      THEN Trim(markdownMatch.group)
      ELSE srtContent

\* step 2: from the first SRT entry on, or the error to throw
Returned(value) == [ok |-> TRUE, value |-> value, error |-> NoError]

Threw(error) == [ok |-> FALSE, value |-> <<>>, error |-> error]

\* variant: without a match the text is returned as it is
ExtractSrtLenient(srtContent, finishReason) ==
  LET index == SrtBlockIndex(srtContent)
  IN  IF index # 0
      THEN Returned(Substring(srtContent, index))
      ELSE IF finishReason = "SAFETY"
           THEN Threw(NewError(MsgSafety, "SafetyBlocked"))
           ELSE Returned(srtContent)

ExtractSrt(srtContent, finishReason) ==
  LET index == SrtBlockIndex(srtContent)
  IN  IF index # 0
      THEN Returned(Substring(srtContent, index))
      ELSE IF finishReason = "SAFETY"
           THEN Threw(NewError(MsgSafety, "SafetyBlocked"))
           ELSE Threw(NewError(MsgNoValidSrt, "NoValidSrt"))

\* the catch block: every error leaves with the prefix, anything else as unknown
CatchWrap(error) ==
  IF error.isError
  THEN NewError(GeminiPrefix \o error.message, error.kind)
  ELSE NewError(MsgUnknown, error.kind)

\* what the body of the try block does with the outcome of the remote call
TryBody(remote) ==
  IF remote.rejected THEN Threw(remote.error)
  ELSE IF TextThrows(remote) THEN Threw(NewError(MsgTrimOfUndefined, "ServiceError"))
  ELSE ExtractSrt(MarkdownUnwrap(TrimmedText(remote)), remote.finishReason)

generateSrtFromAudio(remote) ==
  LET r == TryBody(remote)
  IN  IF r.ok THEN r ELSE Threw(CatchWrap(r.error))

(***************************************************************************)
(* Response texts: a few tokens, optionally wrapped in a fenced block.     *)
(***************************************************************************)
MaxInner == 4

MaxFenced == 3

TimingComma ==
  <<"0","0",":","0","0",":","0","1",",","0","0","0"," ","-","-",">"," ","0","0",":","0","0",
    ":","0","2",",","0","0","0">>

TimingPeriod ==
  <<"0","0",":","0","0",":","0","1",".","0","0","0"," ","-","-",">"," ","0","0",":","0","0",
    ":","0","2",".","0","0","0">>

Tokens == {"txt", "sp", "nl", "fence", "idx", "tc", "tp"}

TokenChars(tok) ==
  CASE tok = "txt"   -> <<"H","i">>
    [] tok = "sp"    -> <<" ">>
    [] tok = "nl"    -> <<"\n">>
    [] tok = "fence" -> Fence
    [] tok = "idx"   -> <<"1">>
    [] tok = "tc"    -> TimingComma
    [] tok = "tp"    -> TimingPeriod

RECURSIVE Flatten(_)
Flatten(toks) ==
  IF toks = <<>> THEN <<>> ELSE TokenChars(Head(toks)) \o Flatten(Tail(toks))

TokenSeqs(max) == UNION { [1..n -> Tokens] : n \in 0..max }

Cue == <<"1","\n">> \o TimingComma \o <<"\n","H","i">>

\* what stands before and after the fenced block
Surroundings ==
  { <<<<>>, <<>>>>,
    <<<<" ","\n">>, <<"\n"," ">>>>,
    <<<<"S","u","r","e","!"," ">>, <<>>>>,
    <<<<>>, <<"\n">> \o Cue>> }

Wrapped(pre, tag, inner, post) ==
  pre \o Fence \o tag \o <<"\n">> \o inner \o <<"\n">> \o Fence \o post

Texts ==
  { Flatten(inner) : inner \in TokenSeqs(MaxInner) }
    \cup { Wrapped(around[1], tag, Flatten(inner), around[2]) :
             around \in Surroundings, tag \in {<<>>, SrtTag}, inner \in TokenSeqs(MaxFenced) }

FinishReasons == {"STOP", "SAFETY"}

Response(text, finishReason) ==
  [rejected |-> FALSE, error |-> NoError, hasText |-> TRUE, text |-> text,
   finishReason |-> finishReason]

BlockedResponse(finishReason) ==
  [rejected |-> FALSE, error |-> NoError, hasText |-> FALSE, text |-> <<>>,
   finishReason |-> finishReason]

Rejection(error) ==
  [rejected |-> TRUE, error |-> error, hasText |-> FALSE, text |-> <<>>,
   finishReason |-> "none"]

(***************************************************************************)
(* fileToBase64 and getAudioDuration (the file utilities).                 *)
(***************************************************************************)
MsgReadFailed ==
  <<"F","a","i","l","e","d"," ","t","o"," ","r","e","a","d"," ","f","i","l","e"," ","a","s",
    " ","b","a","s","e","6","4",".">>

Null == "null"

UploadFiles == {"a.mp3", "b.wav"}

RecordingFile == "recording.webm"

Files == UploadFiles \cup {RecordingFile}

MimeType(file) ==
  CASE file = "a.mp3" -> "audio/mpeg"
    [] file = "b.wav" -> "audio/wav"
    [] OTHER          -> "audio/webm"

\* seconds of audio in each file: one short, one above the Loader's hint threshold
Duration(file) ==
  CASE file = "a.mp3" -> 30
    [] file = "b.wav" -> 90
    [] OTHER          -> 5

\* the outcomes of fileToBase64: the base64 part of the data URL, or a
\* rejection (an empty base64 part, or the reader's error event)
ReadOutcomes(file) ==
  { [resolved |-> TRUE, base64 |-> <<"base64", file>>, error |-> NoError],
    [resolved |-> FALSE, base64 |-> <<>>, error |-> NewError(MsgReadFailed, "ReadFailure")],
    [resolved |-> FALSE, base64 |-> <<>>, error |-> NonError("ReadFailure")] }

\* the outcomes of getAudioDuration: loadedmetadata or error
ProbeOutcomes(file) ==
  { [resolved |-> TRUE, duration |-> Duration(file)],
    [resolved |-> FALSE, duration |-> 0] }

(***************************************************************************)
(* The sentences processAudio shows, chosen from the error's message.      *)
(***************************************************************************)
UpperChars ==
  <<"A","B","C","D","E","F","G","H","I","J","K","L","M","N","O","P","Q","R","S","T","U","V",
    "W","X","Y","Z">>

LowerChars ==
  <<"a","b","c","d","e","f","g","h","i","j","k","l","m","n","o","p","q","r","s","t","u","v",
    "w","x","y","z">>

LowerChar(ch) ==
  IF \E k \in 1..Len(UpperChars) : UpperChars[k] = ch
  THEN LowerChars[CHOOSE k \in 1..Len(UpperChars) : UpperChars[k] = ch]
  ELSE ch

\* String.prototype.toLowerCase
ToLowerCase(s) == [i \in 1..Len(s) |-> LowerChar(s[i])]

NeedleUnsupported ==
  <<"u","n","s","u","p","p","o","r","t","e","d"," ","c","o","n","t","e","n","t">>

NeedleInvalidArgument ==
  <<"i","n","v","a","l","i","d"," ","a","r","g","u","m","e","n","t">>

NeedleTooLong ==
  <<"t","o","o"," ","l","o","n","g">>

NeedlePayloadSize ==
  <<"p","a","y","l","o","a","d"," ","s","i","z","e">>

NeedleNoValidSrt ==
  <<"d","i","d"," ","n","o","t"," ","r","e","t","u","r","n"," ","a"," ","v","a","l","i","d",
    " ","s","r","t"," ","f","o","r","m","a","t">>

NeedleSafety ==
  <<"s","a","f","e","t","y"," ","c","o","n","c","e","r","n","s">>

NeedleGemini ==
  <<"g","e","m","i","n","i"," ","a","p","i"," ","e","r","r","o","r">>

SentenceNoFile == "An audio file is required to generate subtitles."

SentenceDefault == "An unexpected error occurred. Please try again."

SentenceFormat ==
  "The audio format is not supported. Please use a common format like WAV, MP3, or WEBM."

SentenceTooLarge == "The audio file is too large or too long. Please use a smaller file."

SentenceNoSrt ==
  "The AI could not process the audio. It might be silent, contain unsupported content, or be too complex."

SentenceSafety ==
  "Could not generate subtitles as the audio content was flagged for safety reasons."

SentenceService == "There was a problem with the AI service. Please try again later."

\* variant: the message compared without toLowerCase()
ErrorMessageForCaseSensitive(err) ==
  IF ~err.isError THEN SentenceDefault
  ELSE LET message == err.message
       IN  IF Includes(message, NeedleUnsupported) \/ Includes(message, NeedleInvalidArgument)
           THEN SentenceFormat
           ELSE IF Includes(message, NeedleTooLong) \/ Includes(message, NeedlePayloadSize)
           THEN SentenceTooLarge
           ELSE IF Includes(message, NeedleNoValidSrt) THEN SentenceNoSrt
           ELSE IF Includes(message, NeedleSafety) THEN SentenceSafety
           ELSE IF Includes(message, NeedleGemini) THEN SentenceService
           ELSE SentenceDefault

\* the catch block of processAudio: errorMessage for the caught value
ErrorMessageFor(err) ==
  IF ~err.isError THEN SentenceDefault
  ELSE LET message == ToLowerCase(err.message)
       IN  IF Includes(message, NeedleUnsupported) \/ Includes(message, NeedleInvalidArgument)
           THEN SentenceFormat
           ELSE IF Includes(message, NeedleTooLong) \/ Includes(message, NeedlePayloadSize)
           THEN SentenceTooLarge
           ELSE IF Includes(message, NeedleNoValidSrt) THEN SentenceNoSrt
           ELSE IF Includes(message, NeedleSafety) THEN SentenceSafety
           ELSE IF Includes(message, NeedleGemini) THEN SentenceService
           ELSE SentenceDefault

(***************************************************************************)
(* What the remote service can answer in the App model: sample rejections  *)
(* of each kind and a few response texts.                                  *)
(***************************************************************************)
MsgInvalidArgument ==
  <<"R","e","q","u","e","s","t"," ","c","o","n","t","a","i","n","s"," ","a","n"," ","i","n",
    "v","a","l","i","d"," ","a","r","g","u","m","e","n","t",".">>

MsgUnsupported ==
  <<"U","n","s","u","p","p","o","r","t","e","d"," ","c","o","n","t","e","n","t"," ","t","y",
    "p","e"," ","f","o","r"," ","i","n","l","i","n","e"," ","d","a","t","a",".">>

MsgPayloadSize ==
  <<"R","e","q","u","e","s","t"," ","p","a","y","l","o","a","d"," ","s","i","z","e"," ","e",
    "x","c","e","e","d","s"," ","t","h","e"," ","l","i","m","i","t",".">>

MsgTooLong ==
  <<"T","h","e"," ","a","u","d","i","o"," ","i","s"," ","t","o","o"," ","l","o","n","g",".">>

MsgInternal ==
  <<"I","n","t","e","r","n","a","l"," ","e","r","r","o","r"," ","e","n","c","o","u","n","t",
    "e","r","e","d",".">>

MsgDeadline ==
  <<"D","e","a","d","l","i","n","e"," ","e","x","c","e","e","d","e","d",":"," ","t","h","e",
    " ","m","o","d","e","l"," ","t","o","o","k"," ","t","o","o"," ","l","o","n","g"," ","t",
    "o"," ","r","e","s","p","o","n","d",".">>

RemoteErrors ==
  { NewError(MsgInvalidArgument, "UnsupportedContent"),
    NewError(MsgUnsupported, "UnsupportedContent"),
    NewError(MsgPayloadSize, "PayloadTooLarge"),
    NewError(MsgTooLong, "PayloadTooLarge"),
    NewError(MsgInternal, "ServiceError"),
    NewError(MsgDeadline, "ServiceError"),
    NonError("ServiceError") }

AppTexts ==
  { Cue,
    <<"S","u","r","e","!"," ">> \o Cue,
    Wrapped(<<>>, SrtTag, Cue, <<>>),
    <<"H","i">>,
    <<>> }

AppRemotes ==
  { Response(text, fr) : text \in AppTexts, fr \in FinishReasons }
    \cup { BlockedResponse(fr) : fr \in FinishReasons }
    \cup { Rejection(e) : e \in RemoteErrors }

(***************************************************************************)
(* State.  The App component's state, the closure the memoised click       *)
(* handlers hold, the processAudio calls and duration probes that are      *)
(* pending, the AudioRecorder, and the generateSrtFromAudio call that is   *)
(* followed step by step (g...).  event records what the last step did.    *)
(***************************************************************************)
MaxAttempts == 2

MaxProbes == 2

VARIABLES mode, audioFile, audioDuration, srtContent, isLoading, error, targetLanguage,
          memoSrtContent, attempts, probes, recorder, recAudioURL, stopQueued, event,
          gRemote, gPc, gSrtContent, gThrown, gResult

appvars == <<mode, audioFile, audioDuration, srtContent, isLoading, error, targetLanguage>>

recvars == <<recorder, recAudioURL, stopQueued>>

gvars == <<gRemote, gPc, gSrtContent, gThrown, gResult>>

vars == <<appvars, memoSrtContent, attempts, probes, recvars, event, gvars>>

Languages == {"original", "english"}

NoResult == [ok |-> FALSE, value |-> <<>>, error |-> NoError]

Event(type, err, requests, reads) ==
  [type |-> type, error |-> err, requests |-> requests, reads |-> reads]

Did(type) == Event(type, NoError, 0, 0)

\* useState initial values, nothing pending, the recorder unmounted
AppInit ==
  /\ mode = "upload"
  /\ audioFile = Null
  /\ audioDuration = 0
  /\ srtContent = <<>>
  /\ isLoading = FALSE
  /\ error = ""
  /\ targetLanguage = "original"
  /\ memoSrtContent = <<>>
  /\ attempts = <<>>
  /\ probes = [f \in Files |-> 0]
  /\ recorder = "idle"
  /\ recAudioURL = FALSE
  /\ stopQueued = FALSE
  /\ event = Did("init")

GenIdle ==
  /\ gRemote = BlockedResponse("none")
  /\ gPc = "idle"
  /\ gSrtContent = <<>>
  /\ gThrown = NoError
  /\ gResult = NoResult

(***************************************************************************)
(* What App renders.                                                       *)
(***************************************************************************)
LoaderView == isLoading

ResultView == ~isLoading /\ srtContent # <<>>

IdleView == ~isLoading /\ srtContent = <<>>

\* variant: the button rendered beside the Loader and never disabled while loading
GenerateEnabledWhileLoading == srtContent = <<>> /\ audioFile # Null

\* the Generate button: rendered in the idle view, disabled={!audioFile || isLoading}
GenerateEnabled == IdleView /\ ~(audioFile = Null \/ isLoading)

\* the toggles of SrtDisplay: disabled for the current language
LanguageSwitchEnabled(newLanguage) == ResultView /\ newLanguage # targetLanguage

RecorderMounted == IdleView /\ mode = "record"

\* useCallback(..., [audioFile, targetLanguage]): the handlers, and the
\* processAudio closure they call, are renewed only in a render in which one of
\* the two changed; that closure's srtContent is the one of that render
MemoFollows ==
  memoSrtContent' =
    IF audioFile' # audioFile \/ targetLanguage' # targetLanguage
    THEN srtContent' ELSE memoSrtContent

\* AudioRecorder's unmount cleanup: the URL is revoked and the tracks are
\* stopped, which may make a recording MediaRecorder fire its stop event
RecorderFollows ==
  IF RecorderMounted /\ ~(~isLoading' /\ srtContent' = <<>> /\ mode' = "record")
  THEN /\ recAudioURL' = FALSE
       /\ recorder' = "idle"
       /\ IF recorder = "recording"
          THEN stopQueued' \in {stopQueued, TRUE}
          ELSE UNCHANGED stopQueued
  ELSE UNCHANGED recvars

TotalProbes == probes["a.mp3"] + probes["b.wav"] + probes[RecordingFile]

(***************************************************************************)
(* handleAudioFileChange, up to its await, and the probe's completion.     *)
(***************************************************************************)
FileChanged(file) ==
  /\ audioFile' = file
  /\ srtContent' = <<>>
  /\ error' = ""
  /\ targetLanguage' = "original"
  /\ probes' = [probes EXCEPT ![file] = @ + 1]
  /\ UNCHANGED <<mode, audioDuration, isLoading>>

\* FileUpload calls onFileChange with the chosen or dropped file
SelectFile(file) ==
  /\ IdleView /\ mode = "upload"
  /\ TotalProbes < MaxProbes
  /\ FileChanged(file)
  /\ MemoFollows /\ RecorderFollows
  /\ event' = Did("select")
  /\ UNCHANGED <<attempts, gvars>>

\* variant: a rejected probe treated as a hard error: the selection is dropped
\* and an error is shown
ProbeSettlesAsHardError(file) ==
  /\ probes[file] > 0
  /\ \E o \in ProbeOutcomes(file) :
       /\ audioDuration' = o.duration
       /\ event' = Did(IF o.resolved THEN "probed" ELSE "probeFailed")
       /\ audioFile' = IF o.resolved THEN audioFile ELSE Null
       /\ error' = IF o.resolved THEN error ELSE SentenceDefault
  /\ probes' = [probes EXCEPT ![file] = @ - 1]
  /\ UNCHANGED <<mode, srtContent, isLoading, targetLanguage>>
  /\ MemoFollows
  /\ UNCHANGED <<attempts, recvars, gvars>>

\* getAudioDuration settles: setAudioDuration(duration), or 0 in the catch
ProbeSettles(file) ==
  /\ probes[file] > 0
  /\ \E o \in ProbeOutcomes(file) :
       /\ audioDuration' = o.duration
       /\ event' = Did(IF o.resolved THEN "probed" ELSE "probeFailed")
  /\ probes' = [probes EXCEPT ![file] = @ - 1]
  /\ UNCHANGED <<mode, audioFile, srtContent, isLoading, error, targetLanguage>>
  /\ UNCHANGED <<memoSrtContent, attempts, recvars, gvars>>

\* the language toggles of the idle view, shown when a file is selected
ToggleLanguage(language) ==
  /\ IdleView /\ audioFile # Null
  /\ targetLanguage' = language
  /\ UNCHANGED <<mode, audioFile, audioDuration, srtContent, isLoading, error>>
  /\ MemoFollows
  /\ event' = Did("toggle")
  /\ UNCHANGED <<attempts, probes, recvars, gvars>>

(***************************************************************************)
(* processAudio: its start, the file read, the remote call, the end.       *)
(***************************************************************************)
\* processAudio(language) up to its first await, run from a handler whose
\* closure holds file, closureSrt and closureLanguage
StartProcess(language, file, closureSrt, closureLanguage) ==
  IF file = Null
  THEN /\ error' = SentenceNoFile
       /\ UNCHANGED <<srtContent, isLoading, attempts>>
  ELSE /\ isLoading' = TRUE
       /\ error' = ""
       /\ srtContent' = <<>>
       /\ attempts' = Append(attempts,
            [pc |-> "reading", language |-> language, file |-> file,
             closureSrt |-> closureSrt, closureLanguage |-> closureLanguage,
             request |-> <<>>, reads |-> 1, requests |-> 0])

\* handleGenerateClick: processAudio(targetLanguage)
GenerateClick ==
  /\ GenerateEnabled
  /\ Len(attempts) < MaxAttempts
  /\ StartProcess(targetLanguage, audioFile, memoSrtContent, targetLanguage)
  /\ UNCHANGED <<mode, audioFile, audioDuration, targetLanguage>>
  /\ MemoFollows /\ RecorderFollows
  /\ event' = Did("generate")
  /\ UNCHANGED <<probes, gvars>>

\* handleLanguageChange(newLanguage)
LanguageChange(newLanguage) ==
  /\ LanguageSwitchEnabled(newLanguage)
  /\ Len(attempts) < MaxAttempts
  /\ IF newLanguage = targetLanguage
     THEN UNCHANGED <<targetLanguage, srtContent, isLoading, error, attempts>>
     ELSE /\ targetLanguage' = newLanguage
          /\ StartProcess(newLanguage, audioFile, memoSrtContent, targetLanguage)
  /\ UNCHANGED <<mode, audioFile, audioDuration>>
  /\ MemoFollows /\ RecorderFollows
  /\ event' = Did("switch")
  /\ UNCHANGED <<probes, gvars>>

RemoveAt(seq, i) == SubSeq(seq, 1, i - 1) \o SubSeq(seq, i + 1, Len(seq))

\* variant: the catch block only logs
FailsSilently(i, err) ==
  LET a == attempts[i]
  IN  /\ targetLanguage' = IF a.closureSrt # <<>> THEN a.closureLanguage ELSE targetLanguage
      /\ isLoading' = FALSE
      /\ attempts' = RemoveAt(attempts, i)
      /\ event' = Event("failed", err, a.requests, a.reads)
      /\ UNCHANGED <<mode, audioFile, audioDuration, srtContent, error>>

\* variant: no finally block, isLoading is left as it is
FailsWithoutFinally(i, err) ==
  LET a == attempts[i]
  IN  /\ targetLanguage' = IF a.closureSrt # <<>> THEN a.closureLanguage ELSE targetLanguage
      /\ error' = ErrorMessageFor(err)
      /\ attempts' = RemoveAt(attempts, i)
      /\ event' = Event("failed", err, a.requests, a.reads)
      /\ UNCHANGED <<mode, audioFile, audioDuration, srtContent, isLoading>>

\* the catch and finally blocks of processAudio for attempt a and caught value err
Fails(i, err) ==
  LET a == attempts[i]
  IN  /\ targetLanguage' = IF a.closureSrt # <<>> THEN a.closureLanguage ELSE targetLanguage
      /\ error' = ErrorMessageFor(err)
      /\ isLoading' = FALSE
      /\ attempts' = RemoveAt(attempts, i)
      /\ event' = Event("failed", err, a.requests, a.reads)
      /\ UNCHANGED <<mode, audioFile, audioDuration, srtContent>>

\* fileToBase64 resolves: generateSrtFromAudio is called and sends the request
ReadResolves(i) ==
  /\ i \in 1..Len(attempts) /\ attempts[i].pc = "reading"
  /\ \E o \in ReadOutcomes(attempts[i].file) :
       LET a == attempts[i]
       IN  /\ o.resolved
           /\ attempts' = [attempts EXCEPT ![i] =
                [a EXCEPT !.pc = "calling",
                          !.request = BuildRequest(o.base64, MimeType(a.file), a.language),
                          !.requests = a.requests + 1]]
  /\ event' = Did("read")
  /\ UNCHANGED <<appvars, memoSrtContent, probes, recvars, gvars>>

\* variant: a rejected read is tried a second time
ReadRejectsRetrying(i) ==
  /\ i \in 1..Len(attempts) /\ attempts[i].pc = "reading"
  /\ \E o \in ReadOutcomes(attempts[i].file) :
       /\ ~o.resolved
       /\ IF attempts[i].reads < 2
          THEN /\ attempts' = [attempts EXCEPT ![i].reads = @ + 1]
               /\ event' = Did("read")
               /\ UNCHANGED appvars
          ELSE Fails(i, o.error)
  /\ MemoFollows /\ RecorderFollows
  /\ UNCHANGED <<probes, gvars>>

\* fileToBase64 rejects
ReadRejects(i) ==
  /\ i \in 1..Len(attempts) /\ attempts[i].pc = "reading"
  /\ \E o \in ReadOutcomes(attempts[i].file) : ~o.resolved /\ Fails(i, o.error)
  /\ MemoFollows /\ RecorderFollows
  /\ UNCHANGED <<probes, gvars>>

\* generateSrtFromAudio returns
RemoteReturns(i) ==
  /\ i \in 1..Len(attempts) /\ attempts[i].pc = "calling"
  /\ \E remote \in AppRemotes :
       LET r == generateSrtFromAudio(remote)
       IN  /\ r.ok
           /\ srtContent' = r.value
           /\ targetLanguage' = attempts[i].language
           /\ isLoading' = FALSE
           /\ attempts' = RemoveAt(attempts, i)
           /\ event' = Event("succeeded", NoError, attempts[i].requests, attempts[i].reads)
           /\ UNCHANGED <<mode, audioFile, audioDuration, error>>
  /\ MemoFollows /\ RecorderFollows
  /\ UNCHANGED <<probes, gvars>>

\* variant: a request that failed is sent once more before the catch block runs
RemoteThrowsResending(i) ==
  /\ i \in 1..Len(attempts) /\ attempts[i].pc = "calling"
  /\ \E remote \in AppRemotes :
       LET r == generateSrtFromAudio(remote)
       IN  /\ ~r.ok
           /\ IF attempts[i].requests < 2
              THEN /\ attempts' = [attempts EXCEPT ![i].requests = @ + 1]
                   /\ event' = Did("read")
                   /\ UNCHANGED appvars
              ELSE Fails(i, r.error)
  /\ MemoFollows /\ RecorderFollows
  /\ UNCHANGED <<probes, gvars>>

\* generateSrtFromAudio throws
RemoteThrows(i) ==
  /\ i \in 1..Len(attempts) /\ attempts[i].pc = "calling"
  /\ \E remote \in AppRemotes :
       LET r == generateSrtFromAudio(remote)
       IN  ~r.ok /\ Fails(i, r.error)
  /\ MemoFollows /\ RecorderFollows
  /\ UNCHANGED <<probes, gvars>>

(***************************************************************************)
(* The reset handlers.                                                     *)
(***************************************************************************)
\* handleReset, the Start Over button of SrtDisplay
Reset ==
  /\ ResultView
  /\ audioFile' = Null
  /\ srtContent' = <<>>
  /\ error' = ""
  /\ isLoading' = FALSE
  /\ mode' = "upload"
  /\ targetLanguage' = "original"
  /\ audioDuration' = 0
  /\ MemoFollows /\ RecorderFollows
  /\ event' = Did("reset")
  /\ UNCHANGED <<attempts, probes, gvars>>

\* resetStateForModeChange and handleResetRecording set the same four
SelectionCleared ==
  /\ audioFile' = Null
  /\ error' = ""
  /\ targetLanguage' = "original"
  /\ audioDuration' = 0

\* a TabButton: resetStateForModeChange(); setMode(newMode)
TabSwitch(newMode) ==
  /\ IdleView
  /\ SelectionCleared
  /\ mode' = newMode
  /\ UNCHANGED <<srtContent, isLoading>>
  /\ MemoFollows /\ RecorderFollows
  /\ event' = Did("tab")
  /\ UNCHANGED <<attempts, probes, gvars>>

(***************************************************************************)
(* AudioRecorder.                                                          *)
(***************************************************************************)
\* the record button, shown unless a finished recording is displayed
RecordClick ==
  /\ RecorderMounted /\ ~(audioFile # Null /\ recAudioURL)
  /\ IF recorder \in {"recording", "stopping"}
     THEN \* stopRecording: stop() only in state "recording"
          /\ recorder' = "stopping"
          /\ stopQueued' = (stopQueued \/ recorder = "recording")
          /\ UNCHANGED <<recAudioURL, appvars>>
     ELSE \* startRecording: handleReset(), then getUserMedia
          /\ recAudioURL' = FALSE
          /\ SelectionCleared
          /\ recorder' = "asking"
          /\ UNCHANGED <<stopQueued, mode, srtContent, isLoading>>
  /\ MemoFollows
  /\ event' = Did("record")
  /\ UNCHANGED <<attempts, probes, gvars>>

\* getUserMedia settles: the recorder starts, or the catch cleans up
MicSettles ==
  /\ recorder = "asking"
  /\ recorder' \in {"recording", "idle"}
  /\ event' = Did("mic")
  /\ UNCHANGED <<appvars, memoSrtContent, attempts, probes, recAudioURL, stopQueued, gvars>>

\* onstop: setAudioURL, onRecordingComplete(newAudioFile), cleanupRecorderState;
\* the state of an unmounted AudioRecorder is no longer there to set
RecorderStops ==
  /\ stopQueued
  /\ TotalProbes < MaxProbes
  /\ stopQueued' = FALSE
  /\ FileChanged(RecordingFile)
  /\ IF recorder = "stopping"
     THEN recAudioURL' = TRUE /\ recorder' = "idle"
     ELSE UNCHANGED <<recAudioURL, recorder>>
  /\ MemoFollows
  /\ event' = Did("recorded")
  /\ UNCHANGED <<attempts, gvars>>

\* Record Again and Discard: handleReset of AudioRecorder
ClearRecording ==
  /\ RecorderMounted /\ audioFile # Null /\ recAudioURL
  /\ recAudioURL' = FALSE
  /\ SelectionCleared
  /\ UNCHANGED <<mode, srtContent, isLoading, recorder, stopQueued>>
  /\ MemoFollows
  /\ event' = Did("cleared")
  /\ UNCHANGED <<attempts, probes, gvars>>

(***************************************************************************)
(* The App specification.                                                  *)
(***************************************************************************)
Init == AppInit /\ GenIdle

Next ==
  \/ \E file \in UploadFiles : SelectFile(file)
  \/ \E file \in Files : ProbeSettles(file)
  \/ \E language \in Languages : ToggleLanguage(language)
  \/ GenerateClick
  \/ \E language \in Languages : LanguageChange(language)
  \/ \E i \in 1..MaxAttempts : ReadResolves(i)
  \/ \E i \in 1..MaxAttempts : ReadRejects(i)
  \/ \E i \in 1..MaxAttempts : RemoteReturns(i)
  \/ \E i \in 1..MaxAttempts : RemoteThrows(i)
  \/ Reset
  \/ \E newMode \in {"upload", "record"} : TabSwitch(newMode)
  \/ RecordClick
  \/ MicSettles
  \/ RecorderStops
  \/ ClearRecording

Spec == Init /\ [][Next]_vars

\* the step in which the generateSrtFromAudio call of attempt i settles, as it
\* shows on attempts: RemoteReturns and RemoteThrows both end the attempt, and
\* no other step ends an attempt that is calling
RemoteSettles(i) ==
  /\ i \in 1..Len(attempts) /\ attempts[i].pc = "calling"
  /\ attempts' = RemoveAt(attempts, i)

\* the promises processAudio awaits settle: a pending fileToBase64 resolves or
\* rejects, and a pending generateSrtFromAudio returns or throws
FairSpec ==
  /\ Spec
  /\ WF_vars(\E i \in 1..MaxAttempts : ReadResolves(i) \/ ReadRejects(i))
  /\ WF_attempts(\E i \in 1..MaxAttempts : RemoteSettles(i))

(***************************************************************************)
(* generateSrtFromAudio followed step by step on every response text.      *)
(***************************************************************************)
GenInit ==
  /\ AppInit
  /\ gRemote \in { Response(text, fr) : text \in Texts, fr \in FinishReasons }
                   \cup { BlockedResponse(fr) : fr \in FinishReasons }
                   \cup { Rejection(e) : e \in RemoteErrors }
  /\ gPc = "await"
  /\ gSrtContent = <<>>
  /\ gThrown = NoError
  /\ gResult = NoResult

AppUnchanged == UNCHANGED <<appvars, memoSrtContent, attempts, probes, recvars, event>>

\* await generateContent and response.text.trim()
GenReceive ==
  /\ gPc = "await"
  /\ IF gRemote.rejected
     THEN gPc' = "catch" /\ gThrown' = gRemote.error /\ UNCHANGED gSrtContent
     ELSE IF TextThrows(gRemote)
     THEN /\ gPc' = "catch"
          /\ gThrown' = NewError(MsgTrimOfUndefined, "ServiceError")
          /\ UNCHANGED gSrtContent
     ELSE gPc' = "unwrap" /\ gSrtContent' = TrimmedText(gRemote) /\ UNCHANGED gThrown
  /\ UNCHANGED <<gRemote, gResult>>
  /\ AppUnchanged

GenUnwrap ==
  /\ gPc = "unwrap"
  /\ gSrtContent' = MarkdownUnwrap(gSrtContent)
  /\ gPc' = "search"
  /\ UNCHANGED <<gRemote, gThrown, gResult>>
  /\ AppUnchanged

GenSearch ==
  /\ gPc = "search"
  /\ LET r == ExtractSrt(gSrtContent, gRemote.finishReason)
     IN  IF r.ok
         THEN gResult' = r /\ gPc' = "returned" /\ UNCHANGED gThrown
         ELSE gThrown' = r.error /\ gPc' = "catch" /\ UNCHANGED gResult
  /\ UNCHANGED <<gRemote, gSrtContent>>
  /\ AppUnchanged

GenCatch ==
  /\ gPc = "catch"
  /\ gResult' = Threw(CatchWrap(gThrown))
  /\ gPc' = "thrown"
  /\ UNCHANGED <<gRemote, gSrtContent, gThrown>>
  /\ AppUnchanged

GenNext == GenReceive \/ GenUnwrap \/ GenSearch \/ GenCatch

SpecGen == GenInit /\ [][GenNext]_vars

(***************************************************************************)
(* Properties of generateSrtFromAudio, checked under SpecGen.              *)
(***************************************************************************)
GenDone == gPc \in {"returned", "thrown"}

GenOnText == ~gRemote.rejected /\ gRemote.hasText

\* a cue header at position i: digits, optional whitespace, a line feed, a timing line
HeaderAt(s, i) ==
  \E t \in (i + 2)..Len(s) :
    /\ s[t - 1] = "\n"
    /\ MatchTimingAt(s, t)
    /\ \E a \in i..(t - 2) : AllDigit(s, i, a) /\ AllSpace(s, a + 1, t - 2)

\* a cue header with nothing but one line feed between index and timing line
StrictHeaderAt(s, i) ==
  \E a \in i..Len(s) : AllDigit(s, i, a) /\ a + 1 <= Len(s) /\ s[a + 1] = "\n"
                        /\ MatchTimingAt(s, a + 2)

HasHeader(s) == \E i \in 1..Len(s) : HeaderAt(s, i)

HasStrictHeader(s) == \E i \in 1..Len(s) : StrictHeaderAt(s, i)

NoOuterSpace(s) == s # <<>> /\ ~IsSpace(s[1]) /\ ~IsSpace(s[Len(s)])

\* C1: a response with finish-reason SAFETY and a text always makes the call
\* fail with the safety error, whatever the text holds
C1_SafetyAlwaysBlocks ==
  (GenDone /\ GenOnText /\ gRemote.finishReason = "SAFETY")
    => (~gResult.ok /\ gResult.error.kind = "SafetyBlocked")

FencedBlock(text) ==
  LET t == Trim(text)
      p == IF StartsWithAt(t, 4, SrtTag) THEN 7 ELSE 4
      c == Len(t) - 2
  IN  [wrapped  |-> /\ StartsWithAt(t, 1, Fence)
                    /\ StartsWithAt(t, p, <<"\n">>)
                    /\ c - 1 > p
                    /\ StartsWithAt(t, c - 1, <<"\n">> \o Fence)
                    /\ ~Includes(SubSeq(t, p + 1, c - 2), <<"\n">> \o Fence),
       interior |-> SubSeq(t, p + 1, c - 2)]

GenUnwrapped == gPc \in {"search", "returned"}

\* C4 as stated: for a text wrapped in a fenced block the unwrap step leaves
\* exactly the trimmed interior
C4_UnwrapYieldsInterior ==
  GenUnwrapped =>
    LET block == FencedBlock(gRemote.text)
    IN  block.wrapped => gSrtContent = Trim(block.interior)

\* C4 amended: the same, for a fenced block whose interior is not empty
C4_UnwrapYieldsNonEmptyInterior ==
  GenUnwrapped =>
    LET block == FencedBlock(gRemote.text)
    IN  (block.wrapped /\ block.interior # <<>>)
          => /\ gSrtContent = Trim(block.interior)
             /\ gPc = "returned" =>
                  \E k \in 1..Len(gSrtContent) :
                    gResult.value = SubSeq(gSrtContent, k, Len(gSrtContent))

C4_Witness ==
  /\ gPc = "returned"
  /\ FencedBlock(gRemote.text).wrapped
  /\ IsSpace(gRemote.text[1])
  /\ IsSpace(gRemote.text[Len(gRemote.text)])
  /\ StartsWithAt(Trim(gRemote.text), 4, SrtTag)
  /\ gSrtContent = Trim(FencedBlock(gRemote.text).interior)

\* C5 as stated: a returned string starts with digits, one line feed and the
\* timing line, and has no whitespace at either end
C5_StrictFirstHeader ==
  (GenDone /\ gResult.ok) => (StrictHeaderAt(gResult.value, 1) /\ NoOuterSpace(gResult.value))

\* C5 amended: a returned string starts with digits, then optional whitespace
\* (spaces, blank lines) ending in a line feed, then the timing line, and has no
\* whitespace at either end
C5_FirstHeader ==
  (GenDone /\ gResult.ok) => (HeaderAt(gResult.value, 1) /\ NoOuterSpace(gResult.value))

\* C5 witness: a returned string with a blank line between index and timing line
C5_Witness ==
  /\ gPc = "returned"
  /\ HeaderAt(gResult.value, 1)
  /\ ~StrictHeaderAt(gResult.value, 1)
  /\ StartsWithAt(gResult.value, 2, <<"\n", "\n">>)

(***************************************************************************)
(* Properties of the App component, checked under Spec.                    *)
(***************************************************************************)
Failed == event.type = "failed"

\* C6: at most one processAudio call is pending, and only behind the Loader
C6_AtMostOneInFlight ==
  /\ Len(attempts) <= 1
  /\ Len(attempts) = 1 => isLoading

\* C6 witness: an attempt started by a language switch in the result view
C6_Witness == Len(attempts) = 1 /\ isLoading /\ event.type = "switch"

\* C7: a failed attempt leaves a non-empty error, no subtitles and no Loader,
\* so the idle view renders the error; a successful one leaves no error
C7_FailureIsShown ==
  /\ Failed => (error # "" /\ srtContent = <<>> /\ ~isLoading /\ IdleView)
  /\ event.type = "succeeded" => error = ""

C7_Witness ==
  /\ Failed
  /\ event.error.kind = "SafetyBlocked"
  /\ error = SentenceSafety
  /\ IdleView

\* the sentence the taxonomy assigns to each failure kind of the remote call
KindSentence(kind) ==
  CASE kind = "UnsupportedContent" -> SentenceFormat
    [] kind = "PayloadTooLarge"    -> SentenceTooLarge
    [] kind = "SafetyBlocked"      -> SentenceSafety
    [] kind = "NoValidSrt"         -> SentenceNoSrt
    [] kind = "ServiceError"       -> SentenceService

RemoteKinds ==
  {"UnsupportedContent", "PayloadTooLarge", "SafetyBlocked", "NoValidSrt", "ServiceError"}

\* C8: the sentence shown is decided by the failure kind alone: the diagnostic
\* text of a failure never makes it show the sentence of another kind
C8_TextNeverChangesTheKindShown ==
  Failed => \A kind \in RemoteKinds : error = KindSentence(kind) => event.error.kind = kind

C10_ReadFailureEndsAttempt ==
  (Failed /\ event.error.kind = "ReadFailure") =>
    /\ event.reads = 1
    /\ event.requests = 0
    /\ error # ""
    /\ ~isLoading
    /\ attempts = <<>>

C10_Witness ==
  /\ Failed
  /\ event.error.kind = "ReadFailure"
  /\ ~event.error.isError
  /\ error = SentenceDefault

\* C11: a rejected duration probe is no hard error: the step sets audioDuration
\* to 0 and leaves the selected file, the error text and the rest of the view as
\* they were, so a Generate button that was enabled stays enabled
C11_ProbeFailureIsGraceful ==
  [][event'.type = "probeFailed" =>
       /\ audioDuration' = 0
       /\ UNCHANGED <<audioFile, error, srtContent, isLoading, targetLanguage, mode, attempts>>
       /\ GenerateEnabled => GenerateEnabled']_vars

\* C11 witness: after a rejected probe the file is still selected, no error is
\* shown and Generate is enabled
C11_Witness ==
  /\ event.type = "probeFailed"
  /\ audioFile # Null
  /\ TotalProbes = 0
  /\ audioDuration = 0
  /\ error = ""
  /\ GenerateEnabled

\* C12: every processAudio call reads its file once and sends one request,
\* built from the payload of that read: a pending call has read once and has
\* sent nothing while reading and one request while calling; a finished call
\* has read once and has sent one request, or none when the read failed
C12_OneReadOneRequest ==
  /\ \A i \in 1..Len(attempts) :
       LET a == attempts[i]
       IN  /\ a.reads = 1
           /\ a.pc = "reading" => (a.requests = 0 /\ a.request = <<>>)
           /\ a.pc = "calling" =>
                /\ a.requests = 1
                /\ a.request = BuildRequest(<<"base64", a.file>>, MimeType(a.file), a.language)
  /\ event.type = "succeeded" => (event.reads = 1 /\ event.requests = 1)
  /\ Failed => /\ event.reads = 1
               /\ event.requests = IF event.error.kind = "ReadFailure" THEN 0 ELSE 1

\* C12 witness: a second call for the same file, started by a language switch,
\* has read the file again and has sent its one request for the new language
C12_Witness ==
  /\ Len(attempts) = 1
  /\ attempts[1].pc = "calling"
  /\ attempts[1].language # attempts[1].closureLanguage
  /\ attempts[1].reads = 1
  /\ attempts[1].requests = 1
  /\ attempts[1].request.instruction = Instruction(attempts[1].language)

\* C13: when an attempt started by a language switch fails, targetLanguage is
\* put back to the language selected before the switch
C13_FailedSwitchRevertsLanguage ==
  [][\A i \in 1..Len(attempts) :
       (/\ event'.type = "failed"
        /\ attempts' = RemoveAt(attempts, i)
        /\ attempts[i].language # attempts[i].closureLanguage)
         => targetLanguage' = attempts[i].closureLanguage]_vars

\* C14: when the file read and the remote call settle, every attempt ends:
\* isLoading, once true, becomes false again, in a state that shows the
\* subtitles or an error text
C14_AttemptsFinish ==
  isLoading ~> (~isLoading /\ (srtContent # <<>> \/ error # ""))

\* C14 witness: an attempt that went through the read and the request has
\* ended, the Loader is gone and the subtitles are shown
C14_Witness ==
  /\ event.type = "succeeded"
  /\ event.reads = 1 /\ event.requests = 1
  /\ ~isLoading
  /\ ResultView
  /\ error = ""

\* C15: the subtitles shown belong to the selected language and file: the
\* step that shows a result leaves targetLanguage at the language of the call
\* that produced it and audioFile at the file that call read, and while the
\* same result stays shown neither of the two changes
C15_ResultMatchesLanguageAndFile ==
  [][/\ \A i \in 1..Len(attempts) :
          (event'.type = "succeeded" /\ attempts' = RemoveAt(attempts, i))
            => /\ ResultView'
               /\ targetLanguage' = attempts[i].language
               /\ audioFile' = attempts[i].file
               /\ audioFile' # Null
     /\ (ResultView /\ ResultView' /\ srtContent' = srtContent)
          => UNCHANGED <<targetLanguage, audioFile>>]_vars

\* C16: once no duration probe is pending, audioDuration describes the selected
\* audio: 0 without a file, and with a file its duration, or 0 when its probe
\* failed; a probe of an earlier selection that settles late changes nothing
C16_DurationOfCurrentFile ==
  TotalProbes = 0 =>
    IF audioFile = Null
    THEN audioDuration = 0
    ELSE audioDuration \in {Duration(audioFile), 0}

====
